---- MODULE Spec2Model ----
(***************************************************************************)
(* bookmd: the notes table (funcs/sql.go), the images directory and the    *)
(* three HTTP handlers (add-note, update-note, regenerate-note) that tie   *)
(* them to the transcription call.  Each handler is cut at the points     *)
(* where it touches shared state (the images directory, the database, the *)
(* AI endpoint); requests run concurrently, one goroutine per request.     *)
(***************************************************************************)
EXTENDS Integers, Sequences, FiniteSets, TLC

VARIABLES
    notes,      \* table notes: id -> [date_created, image, markdown]
    seq,        \* sqlite_sequence row of notes (AUTOINCREMENT high-water mark)
    clock,      \* last value CURRENT_TIMESTAMP / time.Now() produced
    files,      \* ./images: stored filename -> bytes
    aiClient,   \* the global aiClient is non-nil (OPENAI_API_KEY was set)
    req,        \* one record per request: its handler's locals and position
    resp,       \* the response written last: handler, status, error text or note,
                \* and how many times the handler ran ConvertImageToMarkdown
    listing     \* what the last GetAllNotes call returned

vars == <<notes, seq, clock, files, aiClient, req, resp, listing>>

-----------------------------------------------------------------------------
(* Bounds *)

MaxReqs == 2        \* HTTP requests served in one run
MaxClock == 1       \* timestamps range over 0..MaxClock

Reqs == 1..MaxReqs

-----------------------------------------------------------------------------
(* Strings are sequences of one-character strings. *)

DigitChars == <<"0", "1", "2", "3", "4", "5", "6", "7", "8", "9">>

DigitVal(c) == CHOOSE d \in 0..9 : DigitChars[d + 1] = c

IsDigit(c) == \E d \in 0..9 : DigitChars[d + 1] = c

\* fmt.Sprintf("%d", n) for n >= 0
RECURSIVE FormatInt(_)
FormatInt(n) ==
    IF n < 10 THEN <<DigitChars[n + 1]>>
    ELSE FormatInt(n \div 10) \o <<DigitChars[(n % 10) + 1]>>

\* strconv.Atoi on an unsigned decimal string: [ok, val]
RECURSIVE ParseDigits(_, _)
ParseDigits(s, acc) ==
    IF s = <<>> THEN acc
    ELSE ParseDigits(Tail(s), acc * 10 + DigitVal(Head(s)))

Atoi(s) ==
    IF s # <<>> /\ \A i \in 1..Len(s) : IsDigit(s[i])
    THEN [ok |-> TRUE, val |-> ParseDigits(s, 0)]
    ELSE [ok |-> FALSE, val |-> 0]

\* filepath.Ext: the suffix beginning at the final dot, empty if there is none
Ext(name) ==
    LET dots == {i \in 1..Len(name) : name[i] = "."}
    IN  IF dots = {} THEN <<>>
        ELSE LET last == CHOOSE i \in dots : \A j \in dots : j <= i
             IN  SubSeq(name, last, Len(name))

\* filename := fmt.Sprintf("%d%s", header.Size, ext)
StoredFilenameByName(header) == FormatInt(header.Size) \o header.Filename

StoredFilename(header) == FormatInt(header.Size) \o Ext(header.Filename)

-----------------------------------------------------------------------------
(* Inputs *)

Png1 == [Filename |-> <<"a", ".", "p", "n", "g">>, bytes |-> <<1>>]
Png2 == [Filename |-> <<"b", ".", "p", "n", "g">>, bytes |-> <<2>>]
Jpg1 == [Filename |-> <<"c", ".", "j", "p", "g">>, bytes |-> <<3, 4>>]

\* the multipart "image" part: header.Filename, header.Size and the bytes
Header(part) == [Filename |-> part.Filename, Size |-> Len(part.bytes)]

NoPart == [Filename |-> <<>>, bytes |-> <<>>]

Parts == {Png1, Png2, Jpg1}

Methods == {"POST", "GET"}

IdStrs == {<<>>, <<"x">>, <<"1">>, <<"2">>}

\* what client.CreateChatCompletion gives back: an error, or the choices
ApiResults == {[err |-> TRUE, choices |-> <<>>],
               [err |-> FALSE, choices |-> <<>>],
               [err |-> FALSE, choices |-> <<"m2">>],
               [err |-> FALSE, choices |-> <<"m2", "m1">>]}

-----------------------------------------------------------------------------
(* The notes table: funcs/sql.go *)

NoNote == [id |-> 0, date_created |-> 0, image |-> <<>>, markdown |-> ""]

Max(a, b) == IF a >= b THEN a ELSE b

MaxRowid(t) ==
    IF DOMAIN t = {} THEN 0
    ELSE CHOOSE i \in DOMAIN t : \A j \in DOMAIN t : j <= i

\* a table declared without AUTOINCREMENT: one more than the largest rowid in use
NextRowidNoAutoincrement(t, s) == MaxRowid(t) + 1

\* id INTEGER PRIMARY KEY AUTOINCREMENT: one more than the largest rowid ever used
NextRowid(t, s) == Max(s, MaxRowid(t)) + 1

\* INSERT INTO notes (image, markdown) VALUES (?, ?), at CURRENT_TIMESTAMP = now
InsertRow(t, s, now, image, markdown) ==
    LET id == NextRowid(t, s)
    IN  [notes |-> (id :> [date_created |-> now, image |-> image,
                           markdown |-> markdown]) @@ t,
         seq |-> id,
         id |-> id]

\* AddNote: the insert, then a Note built from LastInsertId, time.Now() (the same
\* clock, read right after the insert) and the arguments
AddNote(t, s, now, image, markdown) ==
    LET ins == InsertRow(t, s, now, image, markdown)
    IN  [notes |-> ins.notes,
         seq |-> ins.seq,
         note |-> [id |-> ins.id, date_created |-> now, image |-> image,
                   markdown |-> markdown]]

\* SELECT id, date_created, image, markdown FROM notes WHERE id = ?
GetNoteByID(t, id) ==
    IF id \in DOMAIN t
    THEN [ok |-> TRUE,
          note |-> [id |-> id, date_created |-> t[id].date_created,
                    image |-> t[id].image, markdown |-> t[id].markdown]]
    ELSE [ok |-> FALSE, note |-> NoNote]

\* the UPDATE without its WHERE clause: every row is rewritten
UpdateExecAllRows(t, id, image, markdown) ==
    [notes |-> [i \in DOMAIN t |-> [t[i] EXCEPT !.image = image,
                                                !.markdown = markdown]],
     rowsAffected |-> Cardinality(DOMAIN t)]

\* UPDATE notes SET image = ?, markdown = ? WHERE id = ?
UpdateExec(t, id, image, markdown) ==
    IF id \in DOMAIN t
    THEN [notes |-> [t EXCEPT ![id].image = image, ![id].markdown = markdown],
          rowsAffected |-> 1]
    ELSE [notes |-> t, rowsAffected |-> 0]

\* DELETE FROM notes WHERE id = ?
DeleteExec(t, id) ==
    IF id \in DOMAIN t
    THEN [notes |-> [i \in DOMAIN t \ {id} |-> t[i]], rowsAffected |-> 1]
    ELSE [notes |-> t, rowsAffected |-> 0]

\* the rows of ids in table order, no ORDER BY
RECURSIVE InRowidOrder(_, _)
InRowidOrder(t, ids) ==
    IF ids = {} THEN <<>>
    ELSE LET i == CHOOSE x \in ids : \A y \in ids : x <= y
         IN  <<GetNoteByID(t, i).note>> \o InRowidOrder(t, ids \ {i})

\* ORDER BY date_created DESC over the rows ids; rows with equal date_created
\* come in descending or ascending rowid order, as the query plan has it
RECURSIVE OrderByDateCreatedDesc(_, _, _)
OrderByDateCreatedDesc(t, ids, tieDesc) ==
    IF ids = {} THEN <<>>
    ELSE LET newest == {i \in ids : \A j \in ids :
                            t[j].date_created <= t[i].date_created}
             i == CHOOSE x \in newest : \A y \in newest :
                            IF tieDesc THEN y <= x ELSE x <= y
         IN  <<GetNoteByID(t, i).note>> \o OrderByDateCreatedDesc(t, ids \ {i}, tieDesc)

GetAllNotesUnordered(t, tieDesc) == InRowidOrder(t, DOMAIN t)

\* SELECT ... FROM notes ORDER BY date_created DESC
GetAllNotes(t, tieDesc) == OrderByDateCreatedDesc(t, DOMAIN t, tieDesc)

-----------------------------------------------------------------------------
(* The transcription client *)

\* ConvertImageToMarkdown: the credential check, os.ReadFile, one chat completion,
\* the first choice's content
ConvertImageToMarkdown(client, fs, image, api) ==
    IF ~client THEN [ok |-> FALSE, markdown |-> ""]
    ELSE IF image \notin DOMAIN fs THEN [ok |-> FALSE, markdown |-> ""]
    ELSE IF api.err THEN [ok |-> FALSE, markdown |-> ""]
    ELSE IF Len(api.choices) = 0 THEN [ok |-> FALSE, markdown |-> ""]
    ELSE [ok |-> TRUE, markdown |-> api.choices[1]]

-----------------------------------------------------------------------------
(* The images directory *)

EmptyDir == [f \in {} |-> <<>>]

\* os.Create: the file exists afterwards and is empty
CreateFile(fs, name) == (name :> <<>>) @@ fs

\* a write of data at offset 0 through a descriptor os.Create returned
WriteFile(fs, name, data) ==
    LET old == fs[name]
        rest == IF Len(old) > Len(data)
                THEN SubSeq(old, Len(data) + 1, Len(old)) ELSE <<>>
    IN  [fs EXCEPT ![name] = data \o rest]

\* the existence check left out
StatNeverMissing(fs, name) == FALSE

\* os.Stat(imagePath) reports IsNotExist
StatNotExist(fs, name) == name \notin DOMAIN fs

-----------------------------------------------------------------------------
(* Requests *)

IdleReq == [kind |-> "none", pc |-> "idle", id |-> 0, part |-> NoPart,
            image |-> <<>>, markdown |-> "", calls |-> 0]

DoneReq == [IdleReq EXCEPT !.pc = "done"]

NoResp == [kind |-> "none", status |-> 0, msg |-> "", note |-> NoNote, calls |-> 0]

\* the row main() finds in ./notes.db when an earlier run left one
OldImage == <<"1", ".", "p", "n", "g">>

OldRow == [date_created |-> 0, image |-> OldImage, markdown |-> "m1"]

\* main(): InitDB opens ./notes.db and creates the table if it is not there, the
\* client is built if the key is set, ./images is created if it is not there
Init ==
    /\ aiClient \in BOOLEAN
    /\ clock = 0
    /\ listing = <<>>
    /\ req = [r \in Reqs |-> IdleReq]
    /\ resp = NoResp
    /\ \/ /\ notes = [i \in {} |-> OldRow]
          /\ seq = 0
          /\ files = EmptyDir
       \/ /\ notes = (1 :> OldRow)
          /\ seq = 1
          /\ files \in {EmptyDir, (OldImage :> <<1>>)}

\* requests are numbered in the order the server accepts them
Accepts(r) ==
    /\ req[r].pc = "idle"
    /\ \A q \in Reqs : q < r => req[q].pc # "idle"

\* http.Error(w, ..., status) and return
Fail(r, kind, status, msg) ==
    /\ req' = [req EXCEPT ![r] = DoneReq]
    /\ resp' = [kind |-> kind, status |-> status, msg |-> msg, note |-> NoNote,
                calls |-> req[r].calls]

\* the success envelope: status 200 with the note's id, image and markdown
Succeed(r, note) ==
    /\ req' = [req EXCEPT ![r] = DoneReq]
    /\ resp' = [kind |-> req[r].kind, status |-> 200, msg |-> "", note |-> note,
                calls |-> req[r].calls]

\* io.Copy(dst, file): all the bytes, or an error after the first n of them
CopyStep(r) ==
    /\ req[r].pc = "copy"
    /\ \E n \in 0..Len(req[r].part.bytes) :
          /\ files' = WriteFile(files, req[r].image, SubSeq(req[r].part.bytes, 1, n))
          /\ IF n = Len(req[r].part.bytes)
             THEN /\ req' = [req EXCEPT ![r].pc = "convert"]
                  /\ UNCHANGED resp
             ELSE Fail(r, req[r].kind, 500, "Failed to save image")
    /\ UNCHANGED <<notes, seq, clock, aiClient, listing>>

\* markdown, err := funcs.ConvertImageToMarkdown(ctx, aiClient, imagePath)
ConvertStep(r) ==
    /\ req[r].pc = "convert"
    /\ \E api \in ApiResults :
          LET c == ConvertImageToMarkdown(aiClient, files, req[r].image, api)
          IN  IF c.ok
              THEN /\ req' = [req EXCEPT ![r].pc = "store", ![r].markdown = c.markdown,
                                         ![r].calls = @ + 1]
                   /\ UNCHANGED resp
              ELSE /\ req' = [req EXCEPT ![r] = DoneReq]
                   /\ resp' = [kind |-> req[r].kind, status |-> 500,
                               msg |-> "Failed to convert image to markdown",
                               note |-> NoNote, calls |-> req[r].calls + 1]
    /\ UNCHANGED <<notes, seq, clock, files, aiClient, listing>>

-----------------------------------------------------------------------------
(* AddNoteHandler *)

\* method check, ParseMultipartForm, FormFile, the filename, os.Create
AddNoteStart(r) ==
    /\ Accepts(r)
    /\ \E m \in Methods, formOK \in BOOLEAN, part \in Parts \cup {NoPart},
          createOK \in BOOLEAN :
          IF m # "POST" THEN Fail(r, "add", 405, "Method not allowed") /\ UNCHANGED files
          ELSE IF ~formOK THEN Fail(r, "add", 400, "Failed to parse form") /\ UNCHANGED files
          ELSE IF part = NoPart THEN Fail(r, "add", 400, "No image file provided") /\ UNCHANGED files
          ELSE IF ~createOK THEN Fail(r, "add", 500, "Failed to save image") /\ UNCHANGED files
          ELSE LET filename == StoredFilename(Header(part))
               IN  /\ files' = CreateFile(files, filename)
                   /\ req' = [req EXCEPT ![r].kind = "add", ![r].pc = "copy",
                                          ![r].part = part, ![r].image = filename]
                   /\ UNCHANGED resp
    /\ UNCHANGED <<notes, seq, clock, aiClient, listing>>

AddNoteCopy(r) == req[r].kind = "add" /\ CopyStep(r)

\* the row written before the transcription and left there when it fails
AddNoteConvertAfterInsert(r) ==
    /\ req[r].kind = "add"
    /\ req[r].pc = "convert"
    /\ \E api \in ApiResults :
          LET c == ConvertImageToMarkdown(aiClient, files, req[r].image, api)
              ins == InsertRow(notes, seq, clock, req[r].image, "")
          IN  IF c.ok
              THEN /\ req' = [req EXCEPT ![r].pc = "store", ![r].markdown = c.markdown,
                                         ![r].calls = @ + 1]
                   /\ UNCHANGED <<resp, notes, seq>>
              ELSE /\ notes' = ins.notes
                   /\ seq' = ins.seq
                   /\ Fail(r, "add", 500, "Failed to convert image to markdown")
    /\ UNCHANGED <<clock, files, aiClient, listing>>

AddNoteConvert(r) == req[r].kind = "add" /\ ConvertStep(r)

\* note, err := funcs.AddNote(db, filename, markdown), then the success envelope
AddNoteInsert(r) ==
    /\ req[r].kind = "add"
    /\ req[r].pc = "store"
    /\ \E now \in clock..MaxClock :
          LET a == AddNote(notes, seq, now, req[r].image, req[r].markdown)
          IN  /\ notes' = a.notes
              /\ seq' = a.seq
              /\ clock' = now
              /\ Succeed(r, a.note)
    /\ UNCHANGED <<files, aiClient, listing>>

-----------------------------------------------------------------------------
(* funcs.UpdateNote as the two handlers call it: the UPDATE, then GetNoteByID *)

\* db.Exec(UPDATE ...), RowsAffected, and the handler's answer to its error
UpdateNoteExec(r) ==
    /\ req[r].pc = "store"
    /\ LET u == UpdateExec(notes, req[r].id, req[r].image, req[r].markdown)
       IN  IF u.rowsAffected = 0
           THEN Fail(r, req[r].kind, 500, "Failed to update database") /\ UNCHANGED notes
           ELSE /\ notes' = u.notes
                /\ req' = [req EXCEPT ![r].pc = "reread"]
                /\ UNCHANGED resp
    /\ UNCHANGED <<seq, clock, files, aiClient, listing>>

\* the note built from the arguments instead of read back
UpdateNoteRereadEcho(r) ==
    /\ req[r].pc = "reread"
    /\ Succeed(r, [id |-> req[r].id, date_created |-> 0, image |-> req[r].image,
                   markdown |-> req[r].markdown])
    /\ UNCHANGED <<notes, seq, clock, files, aiClient, listing>>

\* return GetNoteByID(db, id), and the handler's answer
UpdateNoteReread(r) ==
    /\ req[r].pc = "reread"
    /\ LET g == GetNoteByID(notes, req[r].id)
       IN  IF g.ok THEN Succeed(r, g.note)
           ELSE Fail(r, req[r].kind, 500, "Failed to update database")
    /\ UNCHANGED <<notes, seq, clock, files, aiClient, listing>>

-----------------------------------------------------------------------------
(* UpdateNoteHandler *)

\* method check, the id, ParseMultipartForm, FormFile, the filename, os.Create
UpdateNoteStart(r) ==
    /\ Accepts(r)
    /\ \E m \in Methods, idStr \in IdStrs, formOK \in BOOLEAN,
          part \in Parts \cup {NoPart}, createOK \in BOOLEAN :
          IF m # "POST" THEN Fail(r, "update", 405, "Method not allowed") /\ UNCHANGED files
          ELSE IF idStr = <<>> THEN Fail(r, "update", 400, "Note ID required") /\ UNCHANGED files
          ELSE IF ~Atoi(idStr).ok THEN Fail(r, "update", 400, "Invalid note ID") /\ UNCHANGED files
          ELSE IF ~formOK THEN Fail(r, "update", 400, "Failed to parse form") /\ UNCHANGED files
          ELSE IF part = NoPart THEN Fail(r, "update", 400, "No image file provided") /\ UNCHANGED files
          ELSE IF ~createOK THEN Fail(r, "update", 500, "Failed to save image") /\ UNCHANGED files
          ELSE LET filename == StoredFilename(Header(part))
               IN  /\ files' = CreateFile(files, filename)
                   /\ req' = [req EXCEPT ![r].kind = "update", ![r].pc = "copy",
                                          ![r].id = Atoi(idStr).val,
                                          ![r].part = part, ![r].image = filename]
                   /\ UNCHANGED resp
    /\ UNCHANGED <<notes, seq, clock, aiClient, listing>>

UpdateNoteCopy(r) == req[r].kind = "update" /\ CopyStep(r)

UpdateNoteConvert(r) == req[r].kind = "update" /\ ConvertStep(r)

\* the uploaded file removed again when the store write fails
UpdateNoteStoreWithRollback(r) ==
    /\ req[r].kind = "update"
    /\ req[r].pc = "store"
    /\ LET u == UpdateExec(notes, req[r].id, req[r].image, req[r].markdown)
       IN  IF u.rowsAffected = 0
           THEN /\ Fail(r, "update", 500, "Failed to update database")
                /\ files' = [f \in DOMAIN files \ {req[r].image} |-> files[f]]
                /\ UNCHANGED notes
           ELSE /\ notes' = u.notes
                /\ req' = [req EXCEPT ![r].pc = "reread"]
                /\ UNCHANGED <<resp, files>>
    /\ UNCHANGED <<seq, clock, aiClient, listing>>

\* note, err := funcs.UpdateNote(db, id, filename, markdown)
UpdateNoteStore(r) == req[r].kind = "update" /\ UpdateNoteExec(r)

UpdateNoteRespond(r) == req[r].kind = "update" /\ UpdateNoteReread(r)

-----------------------------------------------------------------------------
(* RegenerateNoteHandler *)

\* method check, the id, ParseForm
RegenerateStart(r) ==
    /\ Accepts(r)
    /\ \E m \in Methods, idStr \in IdStrs, formOK \in BOOLEAN :
          IF m # "POST" THEN Fail(r, "regen", 405, "Method not allowed")
          ELSE IF idStr = <<>> THEN Fail(r, "regen", 400, "Note ID required")
          ELSE IF ~Atoi(idStr).ok THEN Fail(r, "regen", 400, "Invalid note ID")
          ELSE IF ~formOK THEN Fail(r, "regen", 400, "Failed to parse form")
          ELSE /\ req' = [req EXCEPT ![r].kind = "regen", ![r].pc = "lookup",
                                     ![r].id = Atoi(idStr).val]
               /\ UNCHANGED resp
    /\ UNCHANGED <<notes, seq, clock, files, aiClient, listing>>

\* note, err := funcs.GetNoteByID(db, id): 404 on an error
RegenerateLookup(r) ==
    /\ req[r].kind = "regen"
    /\ req[r].pc = "lookup"
    /\ LET g == GetNoteByID(notes, req[r].id)
       IN  IF ~g.ok THEN Fail(r, "regen", 404, "Failed to retrieve note")
           ELSE /\ req' = [req EXCEPT ![r].pc = "stat", ![r].image = g.note.image]
                /\ UNCHANGED resp
    /\ UNCHANGED <<notes, seq, clock, files, aiClient, listing>>

\* os.Stat(imagePath): 404 when the file does not exist
RegenerateStat(r) ==
    /\ req[r].kind = "regen"
    /\ req[r].pc = "stat"
    /\ IF StatNotExist(files, req[r].image)
       THEN Fail(r, "regen", 404, "Image file not found")
       ELSE req' = [req EXCEPT ![r].pc = "convert"] /\ UNCHANGED resp
    /\ UNCHANGED <<notes, seq, clock, files, aiClient, listing>>

RegenerateConvert(r) == req[r].kind = "regen" /\ ConvertStep(r)

\* updatedNote, err := funcs.UpdateNote(db, id, note.Image, markdown)
RegenerateStore(r) == req[r].kind = "regen" /\ UpdateNoteExec(r)

RegenerateRespond(r) == req[r].kind = "regen" /\ UpdateNoteReread(r)

-----------------------------------------------------------------------------
(* The server: every request runs its handler in its own goroutine *)

Next ==
    \E r \in Reqs :
        \/ AddNoteStart(r)
        \/ AddNoteCopy(r)
        \/ AddNoteConvert(r)
        \/ AddNoteInsert(r)
        \/ UpdateNoteStart(r)
        \/ UpdateNoteCopy(r)
        \/ UpdateNoteConvert(r)
        \/ UpdateNoteStore(r)
        \/ UpdateNoteRespond(r)
        \/ RegenerateStart(r)
        \/ RegenerateLookup(r)
        \/ RegenerateStat(r)
        \/ RegenerateConvert(r)
        \/ RegenerateStore(r)
        \/ RegenerateRespond(r)

Spec == Init /\ [][Next]_vars

-----------------------------------------------------------------------------
(* The store package under concurrent callers: AddNote, UpdateNote, DeleteNote *)
(* and GetAllNotes called with arguments of the caller's choosing             *)

Ids == 1..(MaxReqs + 1)

\* the (image, markdown) pairs callers pass
Args == {[image |-> StoredFilename(Header(Png1)), markdown |-> "m1"],
         [image |-> StoredFilename(Header(Jpg1)), markdown |-> "m2"]}

\* a caller enters funcs.AddNote(db, image, markdown)
CallAddNote(r) ==
    /\ Accepts(r)
    /\ \E a \in Args :
          req' = [req EXCEPT ![r].kind = "add", ![r].pc = "store",
                             ![r].image = a.image, ![r].markdown = a.markdown]
    /\ UNCHANGED <<notes, seq, clock, files, aiClient, resp, listing>>

\* a caller enters funcs.UpdateNote(db, id, image, markdown)
CallUpdateNote(r) ==
    /\ Accepts(r)
    /\ \E id \in Ids, a \in Args :
          req' = [req EXCEPT ![r].kind = "update", ![r].pc = "store", ![r].id = id,
                             ![r].image = a.image, ![r].markdown = a.markdown]
    /\ UNCHANGED <<notes, seq, clock, files, aiClient, resp, listing>>

\* funcs.DeleteNote(db, id)
DeleteNote(id) ==
    /\ notes' = DeleteExec(notes, id).notes
    /\ UNCHANGED <<seq, clock, files, aiClient, req, resp, listing>>

\* funcs.GetAllNotes(db)
ListNotes ==
    /\ \E tieDesc \in BOOLEAN : listing' = GetAllNotes(notes, tieDesc)
    /\ UNCHANGED <<notes, seq, clock, files, aiClient, req, resp>>

StoreNext ==
    \/ \E r \in Reqs :
        \/ CallAddNote(r)
        \/ AddNoteInsert(r)
        \/ CallUpdateNote(r)
        \/ UpdateNoteStore(r)
        \/ UpdateNoteRespond(r)
    \/ \E id \in Ids : DeleteNote(id)
    \/ ListNotes

\* the callers use neither the images directory nor the client
StoreInit == Init /\ ~aiClient /\ files = EmptyDir

StoreSpec == StoreInit /\ [][StoreNext]_vars

-----------------------------------------------------------------------------
(* Properties *)

\* request r takes the step
Steps(r) == req'[r] # req[r]

\* r is past io.Copy with its upload stored
Stored(r) ==
    /\ req[r].kind \in {"add", "update"}
    /\ req[r].pc \in {"convert", "store", "reread"}

RowNote(t, id) ==
    [id |-> id, date_created |-> t[id].date_created, image |-> t[id].image,
     markdown |-> t[id].markdown]

\* C1: the store write of a regenerate-note request leaves the image of the
\* note it targets as it was just before the write, whatever ran in between.
C1_RegenerateKeepsImage ==
    [][\A r \in Reqs :
          (/\ req[r].kind = "regen"
           /\ req[r].pc = "store"
           /\ Steps(r)
           /\ req[r].id \in DOMAIN notes)
          => notes'[req[r].id].image = notes[req[r].id].image]_vars

\* C2: UpdateNote's UPDATE on an id with a row sets that row's image and
\* markdown to the arguments and changes neither its date_created nor its id
\* nor any other row; on an id with no row it errors and changes nothing.
C2_UpdateNoteFrame ==
    [][\A r \in Reqs :
          (/\ req[r].kind \in {"update", "regen"}
           /\ req[r].pc = "store"
           /\ Steps(r))
          => LET id == req[r].id
             IN  IF id \in DOMAIN notes
                 THEN /\ DOMAIN notes' = DOMAIN notes
                      /\ notes'[id] = [date_created |-> notes[id].date_created,
                                       image |-> req[r].image,
                                       markdown |-> req[r].markdown]
                      /\ \A j \in DOMAIN notes \ {id} : notes'[j] = notes[j]
                 ELSE /\ notes' = notes
                      /\ req'[r].pc = "done"
                      /\ resp'.status # 200]_vars

\* an update has rewritten one row of a table that holds another row too
C2_Witness ==
    \E r \in Reqs :
        /\ req[r].kind = "update"
        /\ req[r].pc = "reread"
        /\ req[r].id \in DOMAIN notes
        /\ DOMAIN notes # {req[r].id}
        /\ notes[req[r].id].image = req[r].image
        /\ notes[req[r].id].image # OldImage

\* C3: every AddNote returns an id above every id assigned before (the
\* sequence never falls, no stored id exceeds it, and the new id exceeds it,
\* so deleted ids are not given out again), and GetNoteByID on that id right
\* after returns the image and markdown AddNote was given.
C3_AddNoteIdsIncrease ==
    [][/\ seq' >= seq
       /\ \A i \in DOMAIN notes' : i <= seq'
       /\ \A r \in Reqs :
             (/\ req[r].kind = "add"
              /\ req[r].pc = "store"
              /\ Steps(r))
             => /\ resp'.status = 200
                /\ resp'.note.id > seq
                /\ \A i \in DOMAIN notes : resp'.note.id > i
                /\ (resp.kind = "add" /\ resp.status = 200)
                      => resp'.note.id > resp.note.id
                /\ LET g == GetNoteByID(notes', resp'.note.id)
                   IN  /\ g.ok
                       /\ g.note.image = req[r].image
                       /\ g.note.markdown = req[r].markdown]_vars

\* an AddNote has answered after the note with the id just below was deleted
C3_Witness ==
    /\ resp.kind = "add"
    /\ resp.status = 200
    /\ resp.note.id >= 2
    /\ resp.note.id \in DOMAIN notes
    /\ (resp.note.id - 1) \notin DOMAIN notes

\* C4: an update-note or regenerate-note request that reaches the store with
\* an id that has no row is answered with 404.
C4_UnknownIdIs404 ==
    [][\A r \in Reqs :
          (/\ req[r].kind \in {"update", "regen"}
           /\ req[r].pc \in {"lookup", "store"}
           /\ req[r].id \notin DOMAIN notes
           /\ Steps(r))
          => resp'.status = 404]_vars

\* C5: an add-note request whose transcription fails is answered with 500 and
\* leaves the notes table and its sequence as they were; an add-note request
\* changes the table only from its store stage, after one transcription.
C5_FailedTranscriptionAddsNoRow ==
    [][\A r \in Reqs :
          (req[r].kind = "add" /\ Steps(r))
          => /\ (req[r].pc = "convert" /\ req'[r].pc = "done")
                   => /\ resp'.status = 500
                      /\ notes' = notes
                      /\ seq' = seq
             /\ (notes' # notes)
                   => (req[r].pc = "store" /\ req[r].calls = 1)]_vars

\* the API failed an add-note on an empty table, which is still empty
C5_Witness ==
    /\ aiClient
    /\ resp.kind = "add"
    /\ resp.status = 500
    /\ resp.msg = "Failed to convert image to markdown"
    /\ resp.calls = 1
    /\ DOMAIN notes = {}
    /\ seq = 0

\* C6: a regenerate-note request that finds its note but not the note's image
\* file is answered with 404, has run no transcription, and changes neither
\* the notes table nor the images directory.
C6_RegenerateMissingImage ==
    [][\A r \in Reqs :
          (/\ req[r].kind = "regen"
           /\ req[r].pc = "stat"
           /\ req[r].image \notin DOMAIN files
           /\ Steps(r))
          => /\ req'[r].pc = "done"
             /\ resp'.status = 404
             /\ resp'.calls = 0
             /\ notes' = notes
             /\ files' = files]_vars

\* a regenerate-note was answered 404 for the missing file of a stored note
C6_Witness ==
    /\ resp.kind = "regen"
    /\ resp.status = 404
    /\ resp.msg = "Image file not found"
    /\ \E i \in DOMAIN notes : notes[i].image \notin DOMAIN files

NewestFirst(l) ==
    \A i, j \in 1..Len(l) : i < j => l[i].date_created >= l[j].date_created

EveryRowOnce(l, t) ==
    /\ Len(l) = Cardinality(DOMAIN t)
    /\ \A id \in DOMAIN t :
          \E i \in 1..Len(l) :
             /\ l[i] = RowNote(t, id)
             /\ \A j \in 1..Len(l) : l[j].id = id => j = i

\* C7: what GetAllNotes returns holds every stored row exactly once, and no
\* row comes before a row with a later date_created.
C7_ListingNewestFirst ==
    [][listing' # listing
          => /\ NewestFirst(listing')
             /\ EveryRowOnce(listing', notes')]_vars

\* a listing of rows created at different times, the later one first
C7_Witness ==
    /\ Len(listing) >= 2
    /\ listing[1].date_created > listing[2].date_created
    /\ listing[1].id > listing[2].id

C9_NoBlobRollback ==
    [][/\ \A f \in DOMAIN files : f \in DOMAIN files'
       /\ files' # files
             => \E r \in Reqs : /\ Steps(r)
                                /\ req[r].pc \in {"idle", "copy"}
       /\ \A r \in Reqs :
             (/\ Stored(r)
              /\ Steps(r)
              /\ req'[r].pc = "done"
              /\ resp'.status # 200)
             => files' = files]_vars

\* an update-note for an id with no row failed on an empty table and its
\* upload is still in the directory
C9_Witness ==
    /\ resp.kind = "update"
    /\ resp.status = 500
    /\ resp.msg = "Failed to update database"
    /\ DOMAIN notes = {}
    /\ \A r \in Reqs : req[r].pc \in {"idle", "done"}
    /\ \E f \in DOMAIN files : files[f] # <<>>

\* C10 as stated: the re-read of UpdateNote succeeds with the image and
\* markdown this call wrote, and a call that errors has not changed the table.
C10_UpdateNoteReturnsOwnWrite ==
    [][\A r \in Reqs :
          /\ (req[r].pc = "reread" /\ Steps(r))
                => /\ resp'.status = 200
                   /\ resp'.note.image = req[r].image
                   /\ resp'.note.markdown = req[r].markdown
          /\ (/\ req[r].kind = "update"
              /\ req[r].pc = "store"
              /\ Steps(r)
              /\ req'[r].pc = "done")
                => notes' = notes]_vars

\* C10 amended: a successful UpdateNote returns the row stored under its id
\* when it re-reads it; it errors at the re-read when the row is gone by
\* then; and when its UPDATE matched no row it errors with the table unchanged.
C10_UpdateNoteReturnsRowAtReread ==
    [][\A r \in Reqs :
          /\ (req[r].pc = "reread" /\ Steps(r))
                => IF req[r].id \in DOMAIN notes
                   THEN /\ resp'.status = 200
                        /\ resp'.note = RowNote(notes, req[r].id)
                   ELSE resp'.status = 500
          /\ (/\ req[r].kind = "update"
              /\ req[r].pc = "store"
              /\ Steps(r)
              /\ req'[r].pc = "done")
                => /\ req[r].id \notin DOMAIN notes
                   /\ notes' = notes
                   /\ resp'.status = 500]_vars

\* two UpdateNote calls on one id have both run their UPDATE and neither its
\* re-read: the row holds the second one's arguments
C10_Witness ==
    \E r1, r2 \in Reqs :
        /\ req[r1].pc = "reread"
        /\ req[r2].pc = "reread"
        /\ req[r1].id = req[r2].id
        /\ req[r1].id \in DOMAIN notes
        /\ req[r1].image # req[r2].image
        /\ notes[req[r1].id].image = req[r2].image

====
